---- MODULE Spec2Model ----
(***************************************************************************)
(* A model of simplespark/app.py: the command line tool that brings up a   *)
(* Spark cluster (one master, N workers) with docker-machine and           *)
(* docker-compose, tears the Consul box down, and runs a smoke test.       *)
(*                                                                         *)
(* One behaviour is one invocation of the tool against a world (the        *)
(* machines docker-machine knows, the instances EC2 reports, the process   *)
(* environment).  Every external command the code runs is one step: its    *)
(* exit status and output are the world's answer, drawn with \E.           *)
(*                                                                         *)
(* Conventions.                                                            *)
(*  - Text that the code matches or concatenates (the --consul reference,  *)
(*    machine names, addresses, URLs) is a sequence of one-character       *)
(*    strings, so that the regular expression and the string formatting    *)
(*    are computed, not assumed.                                           *)
(*  - The statements are followed as written: which command is run, with   *)
(*    which arguments and env=, whether its exit status is checked         *)
(*    (check_call / check_output) or not (Popen + wait), what is returned. *)
(*  - Names app.py uses without binding them are read as what they denote: *)
(*    master_instance_type (an option value), json (the standard module),  *)
(*    env_vars (a fresh dict), re.finall (re.findall); num_workers is the  *)
(*    integer the argument spells.  get_consul_ip is called at line 87 and *)
(*    defined nowhere: it is modelled from the specification (section 4.4  *)
(*    step 1: resolve the reference by name through the address resolver). *)
(*  - An uncaught exception ends the invocation with exit status 1.        *)
(***************************************************************************)
EXTENDS Integers, Sequences, FiniteSets, TLC

VARIABLES
    pc,               \* the statement the invocation is at
    argv,             \* the command and its arguments
    consul,           \* create_cluster: the local variable consul
    swarm_env,        \* the value get_swarm_env returned to its caller
    env_vars,         \* get_swarm_env: the mapping it builds
    raw_env,          \* get_swarm_env: what docker-machine env printed
    master_dns_name,  \* create_cluster: the master's public name
    processes,        \* create_cluster: the list of Popen objects
    worker_num,       \* create_cluster: the index of the two loops
    children,         \* the world: the spawned docker-machine processes
    exit_order,       \* the world: the children that have ended, in that order
    machines,         \* the world: the machines docker-machine knows
    inventory,        \* the world: the instances EC2 describes, by name
    os_environ,       \* the world: the ambient process environment
    calls,            \* the external commands issued so far, in order
    resolutions,      \* the calls of get_ip_from_name so far, in order
    raised,           \* the exception that ended the invocation, or "None"
    exit_status,      \* -1 while running, then the process's exit status
    output            \* test_spark_cluster: what click.echo printed

vars == <<pc, argv, consul, swarm_env, env_vars, raw_env, master_dns_name, processes,
          worker_num, children, exit_order, machines, inventory, os_environ, calls,
          resolutions, raised, exit_status, output>>

-----------------------------------------------------------------------------
(* Bounds of the model.                                                    *)

\* The largest num_workers an invocation is given.
MaxWorkers == 3

-----------------------------------------------------------------------------
(* Text.                                                                   *)

Digit == {"0", "1", "2", "3", "4", "5", "6", "7", "8", "9"}

\* str(worker_num), line 118.
str(n) ==
    LET d(k) == CASE k = 0 -> "0" [] k = 1 -> "1" [] k = 2 -> "2" [] k = 3 -> "3"
                  [] k = 4 -> "4" [] k = 5 -> "5" [] k = 6 -> "6" [] k = 7 -> "7"
                  [] k = 8 -> "8" [] k = 9 -> "9"
    IN  IF n < 10 THEN <<d(n)>> ELSE <<d(n \div 10), d(n % 10)>>

\* Positions reached from a position of P by \d{lo,hi}.
ReDigits(s, P, lo, hi) ==
    { j \in 1..(Len(s) + 1) :
        \E i \in P : /\ j - i >= lo
                     /\ j - i <= hi
                     /\ \A m \in i..(j - 1) : s[m] \in Digit }

\* Positions reached from a position of P by the literal character c.
ReChar(s, P, c) ==
    { j \in 2..(Len(s) + 1) : (j - 1) \in P /\ s[j - 1] = c }

\* Whether $ matches at a position of P: at the end of the text, or just
\* before a newline that ends it (Python's $ without re.MULTILINE).
ReEnd(s, P) ==
    \/ (Len(s) + 1) \in P
    \/ Len(s) >= 1 /\ s[Len(s)] = "\n" /\ Len(s) \in P

looks_like_ip_never(potential_ip) == FALSE

\* re.match(r'^\d{1,3}\.\d{1,3}\.\d{1,3}\.\d{1,3}(:\d{1,5})?$', potential_ip)
looks_like_ip(potential_ip) ==
    LET s  == potential_ip
        o1 == ReDigits(s, {1}, 1, 3)
        o2 == ReDigits(s, ReChar(s, o1, "."), 1, 3)
        o3 == ReDigits(s, ReChar(s, o2, "."), 1, 3)
        o4 == ReDigits(s, ReChar(s, o3, "."), 1, 3)
        pt == ReDigits(s, ReChar(s, o4, ":"), 1, 5)
    IN  ReEnd(s, o4 \cup pt)

\* "consul://" + consul + ":8500", lines 95 and 96.
consul_url(c) ==
    <<"c", "o", "n", "s", "u", "l", ":", "/", "/">> \o c \o <<":", "8", "5", "0", "0">>

\* cluster_prefix + '-master', lines 99 and 166.
master_name_of(cluster_prefix) ==
    cluster_prefix \o <<"-", "m", "a", "s", "t", "e", "r">>

\* worker_prefix + str(worker_num), lines 112 and 118.
worker_name_of(cluster_prefix, n) ==
    cluster_prefix \o <<"-", "w", "o", "r", "k", "e", "r", "-">> \o str(n)

-----------------------------------------------------------------------------
(* The inputs and the world they are run against.                          *)

\* The values of --cluster-prefix.
ClusterPrefixes == { <<"s", "p", "a", "r", "k">> }

\* The name of the Consul box (constants.DEFAULT_CONSUL_BOX_NAME).
ConsulBoxName == <<"c", "o", "n", "s", "u", "l">>

\* The values of --consul: literals with and without a port, a name, and
\* texts that are almost literals.
DiscoveryRefs ==
    { <<"1", ".", "2", ".", "3", ".", "4">>,
      <<"1", ".", "2", ".", "3", ".", "4", ":", "8", "5", "0", "0">>,
      <<"1", ".", "2", ".", "3", ".", "4", "\n">>,
      <<"1", ".", "2", ".", "3">>,
      <<"1", ".", "2", ".", "3", ".", "4", ":">>,
      ConsulBoxName }

\* Whether each value of --consul looks like an address, computed once.
looks_like_ip_of == [ref \in DiscoveryRefs |-> looks_like_ip(ref)]

\* The values of --instance-name of consul destroy.
InstanceNames == { ConsulBoxName }

\* What EC2 reports of an instance: State.Name and the two addresses.
Instance(state, n) ==
    [State |-> state,
     PrivateIpAddress |-> <<"1", "0", ".", "0", ".", "0", ".">> \o str(n),
     PublicDnsName |-> <<"e", "c", "2", "-">> \o str(n)]

InstanceStates == {"pending", "running"}

\* The ambient environments: os.environ, names to values.
AmbientEnvs ==
    { (<<"P", "A", "T", "H">> :> <<"/", "b", "i", "n">>),
      (<<"P", "A", "T", "H">> :> <<"/", "b", "i", "n">>)
          @@ (<<"D", "O", "C", "K", "E", "R", "_", "H", "O", "S", "T">> :>
                 <<"t", "c", "p", ":", "/", "/", "1", ".", "2", ".", "3", ".", "9", ":", "2", "3", "7", "6">>) }

\* One line of what docker-machine env --shell sh --swarm prints: an
\* export of name=value, or a comment.
ExportLine(name, value) ==
    [export |-> TRUE, name |-> name, value |-> value]
CommentLine(text) ==
    [export |-> FALSE, name |-> <<>>, value |-> text]

\* The connection configs docker-machine may print for a master: the
\* endpoint, and TLS, the machine's name or a proxy exemption.
MachineConfigs ==
    { << ExportLine(<<"D", "O", "C", "K", "E", "R", "_", "H", "O", "S", "T">>,
                    <<"\"", "t", "c", "p", ":", "/", "/", "1", ".", "2", ".", "3", ".", "6", ":", "3", "3", "7", "6", "\"">>),
         ExportLine(<<"D", "O", "C", "K", "E", "R", "_", "T", "L", "S", "_", "V", "E", "R", "I", "F", "Y">>,
                    <<"\"", "1", "\"">>),
         CommentLine(<<"e", "v", "a", "l", " ", "$", "(", "d", "o", "c", "k", "e", "r", "-", "m", "a", "c", "h", "i", "n", "e", " ", "e", "n", "v", ")">>) >>,
      << ExportLine(<<"D", "O", "C", "K", "E", "R", "_", "H", "O", "S", "T">>,
                    <<"\"", "t", "c", "p", ":", "/", "/", "1", ".", "2", ".", "3", ".", "6", ":", "3", "3", "7", "6", "\"">>),
         ExportLine(<<"D", "O", "C", "K", "E", "R", "_", "M", "A", "C", "H", "I", "N", "E", "_", "N", "A", "M", "E">>,
                    <<"\"", "s", "p", "a", "r", "k", "-", "m", "a", "s", "t", "e", "r", "\"">>) >>,
      << ExportLine(<<"D", "O", "C", "K", "E", "R", "_", "H", "O", "S", "T">>,
                    <<"\"", "t", "c", "p", ":", "/", "/", "1", ".", "2", ".", "3", ".", "6", ":", "3", "3", "7", "6", "\"">>),
         ExportLine(<<"n", "o", "_", "p", "r", "o", "x", "y">>, <<"\"", "1", ".", "2", ".", "3", ".", "6", "\"">>) >> }

\* The text of one line, and of a config: raw_env, line 135.
line_text(line) ==
    IF line.export
    THEN <<"e", "x", "p", "o", "r", "t", " ">> \o line.name \o <<"=">> \o line.value \o <<"\n">>
    ELSE <<"#", " ">> \o line.value \o <<"\n">>

RECURSIVE config_text(_)
config_text(config) ==
    IF config = <<>> THEN <<>>
    ELSE line_text(Head(config)) \o config_text(Tail(config))

RawEnvs == { config_text(config) : config \in MachineConfigs }

\* The outputs the smoke test job may print.
JobOutputs == {"Pi is roughly 3.14", ""}

\* Python's None, and a mapping, as values of one shape.
PyNone == [none |-> TRUE, vars |-> [k \in {} |-> <<>>]]
PyDict(d) == [none |-> FALSE, vars |-> d]

\* The exit statuses of a child process.
ExitStatuses == {0, 1}

\* The environment a child process gets: env=None inherits the parent's.
ChildEnv(env, ambient) == IF env.none THEN ambient ELSE env.vars

\* The options a command line carries besides its target: the two consul
\* URLs of swarm_options, and the counts of a scale.
NoOpts == [discovery |-> <<>>, store |-> <<>>, scale |-> <<>>]

\* swarm_options, lines 95 to 97.
swarm_options(c) ==
    [discovery |-> consul_url(c), store |-> consul_url(c), scale |-> <<>>]

\* 'scale', 'master=1', 'worker=10', line 126.
scale_master == 1
scale_worker == 10
scale_options ==
    [discovery |-> <<>>, store |-> <<>>, scale |-> <<scale_master, scale_worker>>]

\* One external command: the program and verb, the machine or service it
\* names, its options, the env= it was given, its exit status (-1 for a
\* Popen child, which is not waited for when it is issued) and the output
\* captured from it.
Call(cmd, target, opts, env, rc) ==
    [cmd |-> cmd, target |-> target, opts |-> opts, env |-> env, rc |-> rc,
     out |-> ""]

\* The exit statuses docker-machine create may end with: a machine of that
\* name that already exists makes it fail.
create_statuses(name, ms) == IF name \in ms THEN {1} ELSE ExitStatuses

\* The exit statuses of docker-machine env and docker-machine rm: both fail
\* on a name docker-machine does not know ("Host does not exist").
known_statuses(name, ms) == IF name \in ms THEN ExitStatuses ELSE {1}

Init ==
    /\ pc = "start"
    /\ argv = [cmd |-> "none", num_workers |-> 0, cluster_prefix |-> <<>>,
               consul |-> <<>>, instance_name |-> <<>>]
    /\ consul = <<>>
    /\ swarm_env = PyNone
    /\ env_vars = [k \in {} |-> <<>>]
    /\ raw_env = <<>>
    /\ master_dns_name = <<>>
    /\ processes = <<>>
    /\ worker_num = 0
    /\ children = <<>>
    /\ exit_order = <<>>
    /\ \E box \in BOOLEAN, p \in SUBSET ClusterPrefixes :
          /\ machines = (IF box THEN {ConsulBoxName} ELSE {})
                            \cup { master_name_of(q) : q \in p }
          /\ \E st \in InstanceStates \cup {"absent"} :
                inventory =
                    [n \in (IF st = "absent" THEN {} ELSE {ConsulBoxName})
                              \cup { master_name_of(q) : q \in p } |->
                        IF n = ConsulBoxName THEN Instance(st, 5)
                                             ELSE Instance("running", 6)]
    /\ os_environ \in AmbientEnvs
    /\ calls = <<>>
    /\ resolutions = <<>>
    /\ raised = "None"
    /\ exit_status = -1
    /\ output = "None"

-----------------------------------------------------------------------------
(* get_ip_from_name, lines 142 to 158.                                     *)

get_ip_from_name_retry(inv, instance_name, private) ==
    LET q == Call("aws ec2 describe-instances", instance_name, NoOpts, PyNone, 0)
    IN  IF instance_name \notin DOMAIN inv
        THEN [raised |-> "KeyError", value |-> <<>>, issued |-> <<q>>]
        ELSE IF inv[instance_name].State # "running"
        THEN [raised |-> "EnvironmentError", value |-> <<>>, issued |-> <<q, q>>]
        ELSE IF private
        THEN [raised |-> "None", value |-> inv[instance_name].PrivateIpAddress,
              issued |-> <<q>>]
        ELSE [raised |-> "None", value |-> inv[instance_name].PublicDnsName,
              issued |-> <<q>>]

get_ip_from_name_state_first(inv, instance_name, private) ==
    LET q == Call("aws ec2 describe-instances", instance_name, NoOpts, PyNone, 0)
    IN  IF instance_name \notin DOMAIN inv \/ inv[instance_name].State # "running"
        THEN [raised |-> "EnvironmentError", value |-> <<>>, issued |-> <<q>>]
        ELSE IF private
        THEN [raised |-> "None", value |-> inv[instance_name].PrivateIpAddress,
              issued |-> <<q>>]
        ELSE [raised |-> "None", value |-> inv[instance_name].PublicDnsName,
              issued |-> <<q>>]

get_ip_from_name_swapped(inv, instance_name, private) ==
    LET q == Call("aws ec2 describe-instances", instance_name, NoOpts, PyNone, 0)
    IN  IF instance_name \notin DOMAIN inv
        THEN [raised |-> "KeyError", value |-> <<>>, issued |-> <<q>>]
        ELSE IF inv[instance_name].State # "running"
        THEN [raised |-> "EnvironmentError", value |-> <<>>, issued |-> <<q>>]
        ELSE IF private
        THEN [raised |-> "None", value |-> inv[instance_name].PublicDnsName,
              issued |-> <<q>>]
        ELSE [raised |-> "None", value |-> inv[instance_name].PrivateIpAddress,
              issued |-> <<q>>]

get_ip_from_name_ignores_state(inv, instance_name, private) ==
    LET q == Call("aws ec2 describe-instances", instance_name, NoOpts, PyNone, 0)
    IN  IF instance_name \notin DOMAIN inv
        THEN [raised |-> "KeyError", value |-> <<>>, issued |-> <<q>>]
        ELSE IF private
        THEN [raised |-> "None", value |-> inv[instance_name].PrivateIpAddress,
              issued |-> <<q>>]
        ELSE [raised |-> "None", value |-> inv[instance_name].PublicDnsName,
              issued |-> <<q>>]

\* The result of get_ip_from_name against the inventory inv: the exception
\* it raises or the value it returns, and the commands it issued.  Line 153
\* looks the name up (KeyError when no instance carries it), line 154 checks
\* the state, lines 156 to 158 pick the field.
get_ip_from_name(inv, instance_name, private) ==
    LET q == Call("aws ec2 describe-instances", instance_name, NoOpts, PyNone, 0)
    IN  IF instance_name \notin DOMAIN inv
        THEN [raised |-> "KeyError", value |-> <<>>, issued |-> <<q>>]
        ELSE IF inv[instance_name].State # "running"
        THEN [raised |-> "EnvironmentError", value |-> <<>>, issued |-> <<q>>]
        ELSE IF private
        THEN [raised |-> "None", value |-> inv[instance_name].PrivateIpAddress,
              issued |-> <<q>>]
        ELSE [raised |-> "None", value |-> inv[instance_name].PublicDnsName,
              issued |-> <<q>>]

\* get_consul_ip(consul), called at line 87: the private address of the
\* instance of that name, through get_ip_from_name.
get_consul_ip(inv, name) == get_ip_from_name(inv, name, TRUE)

\* The entry of resolutions for one call of get_ip_from_name.
Resolution(name, private, r, inv) ==
    [name |-> name, private |-> private, raised |-> r.raised, value |-> r.value,
     queries |-> Len(r.issued),
     state |-> IF name \in DOMAIN inv THEN inv[name].State ELSE "absent"]

-----------------------------------------------------------------------------
(* get_swarm_env, lines 129 to 139.                                        *)

\* dict.update: the entries of upd over those of base.
update(base, upd) ==
    [k \in DOMAIN base \cup DOMAIN upd |->
        IF k \in DOMAIN upd THEN upd[k] ELSE base[k]]

\* The characters of [A-Z_].
UpperOrUnderscore ==
    {"A", "B", "C", "D", "E", "F", "G", "H", "I", "J", "K", "L", "M", "N", "O",
     "P", "Q", "R", "S", "T", "U", "V", "W", "X", "Y", "Z", "_"}

\* The characters [^\n\m\r] leaves out: \m is no escape of the re module,
\* and in a character class the Python 2 this file is written for (the str
\* that check_output returns is searched with a str pattern) reads it as
\* the letter m.
value_stops == {"\n", "m", "\r"}

\* The end of the longest run of characters of cls (or, with inside FALSE,
\* of characters not of cls) that starts at position i of text.
RECURSIVE run_end(_, _, _, _)
run_end(text, i, cls, inside) ==
    IF i <= Len(text) /\ ((text[i] \in cls) = inside)
    THEN run_end(text, i + 1, cls, inside)
    ELSE i

\* Whether the characters of word stand at position i of text.
stands_at(text, i, word) ==
    /\ i + Len(word) - 1 <= Len(text)
    /\ \A k \in 1..Len(word) : text[i + k - 1] = word[k]

\* re.findall(r'export ([A-Z_]*=[^\n\m\r]*)', raw_env), from position i on:
\* the groups of the matches, left to right, each as the name before its
\* first = and the value after it (x.split('=', 1)).
RECURSIVE findall_exports(_, _)
findall_exports(text, i) ==
    IF i > Len(text) THEN <<>>
    ELSE LET word == <<"e", "x", "p", "o", "r", "t", " ">>
             n0   == i + Len(word)
             n1   == run_end(text, n0, UpperOrUnderscore, TRUE)
             v1   == run_end(text, n1 + 1, value_stops, FALSE)
         IN  IF stands_at(text, i, word) /\ n1 <= Len(text) /\ text[n1] = "="
             THEN <<[name |-> SubSeq(text, n0, n1 - 1),
                     value |-> SubSeq(text, n1 + 1, v1 - 1)]>>
                      \o findall_exports(text, v1)
             ELSE findall_exports(text, i + 1)

\* dict(...) of the pairs: a later pair replaces an earlier one of its name.
RECURSIVE dict_of(_)
dict_of(pairs) ==
    IF pairs = <<>> THEN [k \in {} |-> <<>>]
    ELSE LET last == pairs[Len(pairs)]
         IN  update(dict_of(SubSeq(pairs, 1, Len(pairs) - 1)),
                    [k \in {last.name} |-> last.value])

\* dict(x.split('=', 1) for x in re.findall(...)), line 139.
parse_exports(text) == dict_of(findall_exports(text, 1))

\* The parse of each text docker-machine env may print, computed once.
parse_exports_of == [text \in RawEnvs |-> parse_exports(text)]

\* The mapping get_swarm_env builds (lines 138 and 139).
built_env(ambient, text) == update(ambient, parse_exports_of[text])

\* What get_swarm_env hands back to its caller: the function ends at line
\* 139 without a return statement.
get_swarm_env_return(built) == PyNone

-----------------------------------------------------------------------------
(* Ending an invocation.                                                   *)

Raise_exit_zero(exc) ==
    /\ pc' = "done"
    /\ raised' = exc
    /\ exit_status' = 0

\* An uncaught exception: the traceback and exit status 1.
Raise(exc) ==
    /\ pc' = "done"
    /\ raised' = exc
    /\ exit_status' = 1

\* The command function returns.
Return ==
    /\ pc' = "done"
    /\ raised' = "None"
    /\ exit_status' = 0

world == <<machines, inventory, os_environ, children, exit_order>>
locals == <<consul, swarm_env, env_vars, raw_env, master_dns_name, processes,
           worker_num>>

\* subprocess.check_call and check_output raise CalledProcessError on a
\* status other than 0 (lines 100, 106, 125, 135, 60, 170).
check_call_unchecked(rc) == FALSE
check_call_raises(rc) == rc # 0

\* Popen.wait() returns the status and raises nothing (line 122).
wait_checked(rc) == rc # 0
wait_raises(rc) == FALSE

-----------------------------------------------------------------------------
(* create_cluster, lines 81 to 126.                                        *)

\* The command line: create NUM_WORKERS -p PREFIX -c CONSUL.
InvokeCreate(n, prefix, ref) ==
    /\ pc = "start"
    /\ argv' = [cmd |-> "create", num_workers |-> n, cluster_prefix |-> prefix,
                consul |-> ref, instance_name |-> <<>>]
    /\ consul' = ref
    /\ pc' = "c_discovery"
    /\ UNCHANGED <<swarm_env, env_vars, raw_env, master_dns_name, processes, worker_num,
                   world, calls, resolutions, raised, exit_status, output>>

\* Lines 86 to 88: a reference that does not look like an address is
\* resolved by name.
CreateDiscovery ==
    /\ pc = "c_discovery"
    /\ IF looks_like_ip_of[consul]
       THEN /\ pc' = "c_master"
            /\ UNCHANGED <<consul, calls, resolutions, raised, exit_status>>
       ELSE LET r == get_consul_ip(inventory, consul)
            IN  /\ calls' = calls \o r.issued
                /\ resolutions' =
                       Append(resolutions, Resolution(consul, TRUE, r, inventory))
                /\ IF r.raised # "None"
                   THEN Raise(r.raised) /\ UNCHANGED consul
                   ELSE /\ consul' = r.value
                        /\ pc' = "c_master"
                        /\ UNCHANGED <<raised, exit_status>>
    /\ UNCHANGED <<argv, swarm_env, env_vars, raw_env, master_dns_name, processes,
                   worker_num, world, output>>

\* Lines 99 to 103: docker-machine create of the master, checked.  A
\* machine that was created is an instance EC2 reports, pending or running.
CreateMaster ==
    /\ pc = "c_master"
    /\ LET master_name == master_name_of(argv.cluster_prefix)
       IN  \E rc \in create_statuses(master_name, machines) :
              /\ calls' = Append(calls, Call("docker-machine create", master_name,
                                             swarm_options(consul), PyNone, rc))
              /\ IF rc = 0
                 THEN /\ machines' = machines \cup {master_name}
                      /\ \E st \in InstanceStates :
                            inventory' = (master_name :> Instance(st, 6)) @@ inventory
                 ELSE UNCHANGED <<machines, inventory>>
              /\ IF check_call_raises(rc)
                 THEN Raise("CalledProcessError")
                 ELSE pc' = "c_env" /\ UNCHANGED <<raised, exit_status>>
    /\ UNCHANGED <<argv, locals, os_environ, children, exit_order, resolutions,
                   output>>

\* get_swarm_env(master_name), lines 135 to 139, called at lines 105 and
\* 167: docker-machine env, checked, then the mapping; resume is where the
\* caller goes on.
GetSwarmEnv(master_name, resume) ==
    \E rc \in known_statuses(master_name, machines) :
       /\ calls' = Append(calls, Call("docker-machine env", master_name,
                                      NoOpts, PyNone, rc))
       /\ IF check_call_raises(rc)
          THEN /\ Raise("CalledProcessError")
               /\ UNCHANGED <<swarm_env, env_vars, raw_env>>
          ELSE /\ raw_env' \in RawEnvs
               /\ env_vars' = built_env(os_environ, raw_env')
               /\ swarm_env' = get_swarm_env_return(env_vars')
               /\ pc' = resume
               /\ UNCHANGED <<raised, exit_status>>

CreateSwarmEnv_workers_first ==
    /\ pc = "c_env"
    /\ GetSwarmEnv(master_name_of(argv.cluster_prefix),
                   IF argv.num_workers > 0 THEN "c_popen" ELSE "c_up")
    /\ UNCHANGED <<argv, consul, master_dns_name, processes, worker_num, world,
                   resolutions, output>>

\* Line 105: swarm_env = get_swarm_env(master_name).
CreateSwarmEnv ==
    /\ pc = "c_env"
    /\ GetSwarmEnv(master_name_of(argv.cluster_prefix), "c_up")
    /\ UNCHANGED <<argv, consul, master_dns_name, processes, worker_num, world,
                   resolutions, output>>

CreateComposeUp_rollback ==
    /\ pc = "c_up"
    /\ \E rc \in ExitStatuses :
          IF check_call_raises(rc)
          THEN /\ calls' = calls \o
                      << Call("docker-compose up", <<"m", "a", "s", "t", "e", "r">>,
                              NoOpts, swarm_env, rc),
                         Call("docker-machine rm", master_name_of(argv.cluster_prefix),
                              NoOpts, PyNone, 0) >>
               /\ machines' = machines \ {master_name_of(argv.cluster_prefix)}
               /\ Raise("CalledProcessError")
          ELSE /\ calls' = Append(calls,
                      Call("docker-compose up", <<"m", "a", "s", "t", "e", "r">>,
                           NoOpts, swarm_env, rc))
               /\ pc' = "c_dns"
               /\ UNCHANGED <<machines, raised, exit_status>>
    /\ UNCHANGED <<argv, locals, inventory, os_environ, children, exit_order,
                   resolutions, output>>

\* Lines 106 and 107: docker-compose up -d master, checked, env=swarm_env.
CreateComposeUp ==
    /\ pc = "c_up"
    /\ \E rc \in ExitStatuses :
          /\ calls' = Append(calls, Call("docker-compose up", <<"m", "a", "s", "t", "e", "r">>,
                                         NoOpts, swarm_env, rc))
          /\ IF check_call_raises(rc)
             THEN Raise("CalledProcessError")
             ELSE pc' = "c_dns" /\ UNCHANGED <<raised, exit_status>>
    /\ UNCHANGED <<argv, locals, world, resolutions, output>>

\* Line 108: master_dns_name = get_ip_from_name(master_name, private=False).
\* Lines 113 to 119 and 121 are loops over range(num_workers): with no
\* worker both are empty.
CreateMasterDns ==
    /\ pc = "c_dns"
    /\ LET master_name == master_name_of(argv.cluster_prefix)
           r == get_ip_from_name(inventory, master_name, FALSE)
       IN  /\ calls' = calls \o r.issued
           /\ resolutions' =
                  Append(resolutions, Resolution(master_name, FALSE, r, inventory))
           /\ IF r.raised # "None"
              THEN Raise(r.raised) /\ UNCHANGED master_dns_name
              ELSE /\ master_dns_name' = r.value
                   /\ pc' = IF argv.num_workers = 0 THEN "c_scale" ELSE "c_popen"
                   /\ UNCHANGED <<raised, exit_status>>
    /\ UNCHANGED <<argv, consul, swarm_env, env_vars, raw_env, processes, worker_num,
                   world, output>>

\* The Popen object of one worker: the child it stands for and its
\* returncode, <<>> (None) until wait() has set it.
Popen(name, pid) == [name |-> name, pid |-> pid, returncode |-> <<>>]

\* The list comprehension of lines 113 to 119 adds the Popen objects in the
\* order of range(num_workers).
comprehend_reversed(ps, p) == <<p>> \o ps
comprehend(ps, p) == Append(ps, p)

CreatePopen_blocking ==
    /\ pc = "c_popen"
    /\ IF worker_num = 0 THEN TRUE ELSE children[worker_num].status # <<>>
    /\ LET name == worker_name_of(argv.cluster_prefix, worker_num)
           last == worker_num + 1 = argv.num_workers
       IN  /\ children' = Append(children, [name |-> name, status |-> <<>>])
           /\ processes' = comprehend(processes, Popen(name, Len(children) + 1))
           /\ calls' = Append(calls, Call("docker-machine create", name,
                                          swarm_options(consul), PyNone, -1))
           /\ worker_num' = IF last THEN 0 ELSE worker_num + 1
           /\ pc' = IF last THEN "c_wait" ELSE "c_popen"
    /\ UNCHANGED <<argv, consul, swarm_env, env_vars, raw_env, master_dns_name,
                   machines, inventory, os_environ, exit_order, resolutions,
                   raised, exit_status, output>>

\* Lines 113 to 119, one turn: Popen of docker-machine create for worker
\* worker_num.  Popen starts the child and does not wait for it.
CreatePopen ==
    /\ pc = "c_popen"
    /\ LET name == worker_name_of(argv.cluster_prefix, worker_num)
           last == worker_num + 1 = argv.num_workers
       IN  /\ children' = Append(children, [name |-> name, status |-> <<>>])
           /\ processes' = comprehend(processes, Popen(name, Len(children) + 1))
           /\ calls' = Append(calls, Call("docker-machine create", name,
                                          swarm_options(consul), PyNone, -1))
           /\ worker_num' = IF last THEN 0 ELSE worker_num + 1
           /\ pc' = IF last THEN "c_wait" ELSE "c_popen"
    /\ UNCHANGED <<argv, consul, swarm_env, env_vars, raw_env, master_dns_name,
                   machines, inventory, os_environ, exit_order, resolutions,
                   raised, exit_status, output>>

\* The world: a spawned docker-machine create ends, with any status the
\* provider gives it; one that succeeded has created its machine.
WorkerExit(i) ==
    /\ i \in 1..Len(children)
    /\ children[i].status = <<>>
    /\ \E rc \in create_statuses(children[i].name, machines) :
          /\ children' = [children EXCEPT ![i].status = <<rc>>]
          /\ exit_order' = Append(exit_order, i)
          /\ IF rc = 0
             THEN /\ machines' = machines \cup {children[i].name}
                  /\ inventory' =
                         (children[i].name :> Instance("running", 10 + i)) @@ inventory
             ELSE UNCHANGED <<machines, inventory>>
    /\ UNCHANGED <<pc, argv, locals, os_environ, calls, resolutions, raised,
                   exit_status, output>>

CreateWait_poll ==
    /\ pc = "c_wait"
    /\ LET p == processes[worker_num + 1]
           last == worker_num + 1 = Len(processes)
       IN  /\ processes' = [processes EXCEPT
                               ![worker_num + 1].returncode = children[p.pid].status]
           /\ worker_num' = worker_num + 1
           /\ pc' = IF last THEN "c_scale" ELSE "c_wait"
           /\ UNCHANGED <<raised, exit_status>>
    /\ UNCHANGED <<argv, consul, swarm_env, env_vars, raw_env, master_dns_name,
                   world, calls, resolutions, output>>

CreateWait_until_created ==
    /\ pc = "c_wait"
    /\ LET p == processes[worker_num + 1]
           last == worker_num + 1 = Len(processes)
       IN  /\ children[p.pid].status = <<0>>
           /\ processes' = [processes EXCEPT
                               ![worker_num + 1].returncode = children[p.pid].status]
           /\ worker_num' = worker_num + 1
           /\ pc' = IF last THEN "c_scale" ELSE "c_wait"
           /\ UNCHANGED <<raised, exit_status>>
    /\ UNCHANGED <<argv, consul, swarm_env, env_vars, raw_env, master_dns_name,
                   world, calls, resolutions, output>>

\* Lines 121 and 122, one turn: p.wait() blocks until that child has ended
\* and records its status; worker_num counts the turns of the loop.
CreateWait ==
    /\ pc = "c_wait"
    /\ LET p == processes[worker_num + 1]
           last == worker_num + 1 = Len(processes)
       IN  /\ children[p.pid].status # <<>>
           /\ processes' = [processes EXCEPT
                               ![worker_num + 1].returncode = children[p.pid].status]
           /\ IF wait_raises(children[p.pid].status[1])
              THEN Raise("CalledProcessError") /\ UNCHANGED worker_num
              ELSE /\ worker_num' = worker_num + 1
                   /\ pc' = IF last THEN "c_scale" ELSE "c_wait"
                   /\ UNCHANGED <<raised, exit_status>>
    /\ UNCHANGED <<argv, consul, swarm_env, env_vars, raw_env, master_dns_name,
                   world, calls, resolutions, output>>

\* Lines 125 and 126: docker-compose scale master=1 worker=10, checked,
\* env=swarm_env; then the command returns.
CreateScale ==
    /\ pc = "c_scale"
    /\ \E rc \in ExitStatuses :
          /\ calls' = Append(calls, Call("docker-compose scale", <<>>,
                                         scale_options, swarm_env, rc))
          /\ IF check_call_raises(rc) THEN Raise("CalledProcessError") ELSE Return
    /\ UNCHANGED <<argv, locals, world, resolutions, output>>

-----------------------------------------------------------------------------
(* destroy_consul_box, lines 55 to 60.                                     *)

\* The command line: consul destroy -n NAME.
InvokeDestroy(name) ==
    /\ pc = "start"
    /\ argv' = [cmd |-> "consul destroy", num_workers |-> 0, cluster_prefix |-> <<>>,
                consul |-> <<>>, instance_name |-> name]
    /\ pc' = "d_rm"
    /\ UNCHANGED <<locals, world, calls, resolutions, raised, exit_status, output>>

\* Line 60: docker-machine rm -y, checked.
DestroyRm ==
    /\ pc = "d_rm"
    /\ \E rc \in known_statuses(argv.instance_name, machines) :
          /\ calls' = Append(calls, Call("docker-machine rm", argv.instance_name,
                                         NoOpts, PyNone, rc))
          /\ IF rc = 0
             THEN /\ machines' = machines \ {argv.instance_name}
                  /\ inventory' = [n \in DOMAIN inventory \ {argv.instance_name} |->
                                      inventory[n]]
             ELSE UNCHANGED <<machines, inventory>>
          /\ IF check_call_raises(rc) THEN Raise("CalledProcessError") ELSE Return
    /\ UNCHANGED <<argv, locals, os_environ, children, exit_order, resolutions,
                   output>>

-----------------------------------------------------------------------------
(* test_spark_cluster, lines 161 to 176.                                   *)

\* The command line: test -p PREFIX.
InvokeTest(prefix) ==
    /\ pc = "start"
    /\ argv' = [cmd |-> "test", num_workers |-> 0, cluster_prefix |-> prefix,
                consul |-> <<>>, instance_name |-> <<>>]
    /\ pc' = "t_env"
    /\ UNCHANGED <<locals, world, calls, resolutions, raised, exit_status, output>>

\* Line 167: swarm_env = get_swarm_env(master_name).
TestSwarmEnv ==
    /\ pc = "t_env"
    /\ GetSwarmEnv(master_name_of(argv.cluster_prefix), "t_submit")
    /\ UNCHANGED <<argv, consul, master_dns_name, processes, worker_num, world,
                   resolutions, output>>

\* click.echo(output), line 176.
echo(text) == text

\* The env= of the docker run of lines 170 to 175: the call names none.
submit_env(env) == PyNone

\* Lines 170 to 176: docker run of spark-submit, checked, its output
\* captured and echoed.
TestSubmit ==
    /\ pc = "t_submit"
    /\ \E rc \in ExitStatuses, out \in JobOutputs :
          /\ calls' = Append(calls,
                 [Call("docker run", <<"m", "a", "s", "t", "e", "r">>, NoOpts,
                       submit_env(swarm_env), rc) EXCEPT !.out = out])
          /\ IF check_call_raises(rc)
             THEN Raise("CalledProcessError") /\ UNCHANGED output
             ELSE Return /\ output' = echo(out)
    /\ UNCHANGED <<argv, locals, world, resolutions>>

-----------------------------------------------------------------------------
(* The world.                                                              *)

\* An instance EC2 reports as pending comes to be running.
InstanceBoot(name) ==
    /\ name \in DOMAIN inventory
    /\ inventory[name].State = "pending"
    /\ inventory' = [inventory EXCEPT ![name].State = "running"]
    /\ UNCHANGED <<pc, argv, locals, machines, os_environ, children, exit_order,
                   calls, resolutions, raised, exit_status, output>>

Next ==
    \/ \E n \in 0..MaxWorkers, prefix \in ClusterPrefixes, ref \in DiscoveryRefs :
          InvokeCreate(n, prefix, ref)
    \/ CreateDiscovery
    \/ CreateMaster
    \/ CreateSwarmEnv
    \/ CreateComposeUp
    \/ CreateMasterDns
    \/ CreatePopen
    \/ \E i \in 1..MaxWorkers : WorkerExit(i)
    \/ CreateWait
    \/ CreateScale
    \/ \E name \in InstanceNames : InvokeDestroy(name)
    \/ DestroyRm
    \/ \E prefix \in ClusterPrefixes : InvokeTest(prefix)
    \/ TestSwarmEnv
    \/ TestSubmit
    \/ \E name \in DOMAIN inventory : InstanceBoot(name)

Spec == Init /\ [][Next]_vars

\* The steps of the tool itself, once it is invoked.
ProgramStep ==
    \/ CreateDiscovery
    \/ CreateMaster
    \/ CreateSwarmEnv
    \/ CreateComposeUp
    \/ CreateMasterDns
    \/ CreatePopen
    \/ CreateWait
    \/ CreateScale
    \/ DestroyRm
    \/ TestSwarmEnv
    \/ TestSubmit

\* The process is scheduled, so a statement that can be executed is, and a
\* command that was started returns: each blocking call within its step,
\* each Popen child by ending.
FairSpec ==
    /\ Spec
    /\ WF_vars(ProgramStep)
    /\ \A i \in 1..MaxWorkers : WF_vars(WorkerExit(i))

-----------------------------------------------------------------------------
(* What the properties below speak of.                                     *)

IsCreate == argv.cmd = "create"
MasterName == master_name_of(argv.cluster_prefix)

\* The positions in calls of the commands cmd.
CallsOf(cmd) == { i \in DOMAIN calls : calls[i].cmd = cmd }

MasterCreates ==
    { i \in CallsOf("docker-machine create") : calls[i].target = MasterName }
WorkerCreates ==
    { i \in CallsOf("docker-machine create") : calls[i].target # MasterName }
ScaleCalls == CallsOf("docker-compose scale")
SubmitCalls == CallsOf("docker run")

\* The inventory queries a create run makes for its --consul reference.
DiscoveryQueries ==
    { i \in CallsOf("aws ec2 describe-instances") : calls[i].target = argv.consul }

FailedWorkers == { i \in DOMAIN children : children[i].status = <<1>> }
SucceededWorkers == { i \in DOMAIN children : children[i].status = <<0>> }

\* The create run has collected its workers: it is at the scale step or
\* beyond it.
Joined == IsCreate /\ (pc = "c_scale" \/ ScaleCalls # {})

\* The references of DiscoveryRefs that are an IPv4 literal, with or without
\* a port, to the pattern of line 12.
LiteralRefs ==
    { <<"1", ".", "2", ".", "3", ".", "4">>,
      <<"1", ".", "2", ".", "3", ".", "4", ":", "8", "5", "0", "0">>,
      <<"1", ".", "2", ".", "3", ".", "4", "\n">> }

\* The attempts the specification gives its resolver (maxAttempts); app.py
\* has no such number.
MaxAttempts == 3

-----------------------------------------------------------------------------
(* The properties.                                                         *)

\* C1: in a create run whose docker-machine create of the master failed, no
\* docker-machine create of a worker is ever issued: no such command, no
\* child process, no Popen object.
C1_NoWorkerAfterMasterFailure ==
    (IsCreate /\ \E i \in MasterCreates : calls[i].rc # 0)
        => (WorkerCreates = {} /\ children = <<>> /\ processes = <<>>)

\* C1, its case: a run asked for workers has ended on the failed master.
C1_Witness ==
    /\ IsCreate /\ argv.num_workers > 0 /\ pc = "done"
    /\ \E i \in MasterCreates : calls[i].rc # 0

C3_PartialFailureDoesNotAbort ==
    (IsCreate /\ pc = "done" /\ Cardinality(FailedWorkers) >= 1
              /\ Cardinality(FailedWorkers) <= argv.num_workers - 1)
        => /\ ScaleCalls # {}
           /\ Len(children) = argv.num_workers
           /\ \A i \in DOMAIN children : children[i].status # <<>>
           /\ \A i \in DOMAIN processes : processes[i].returncode # <<>>

\* C3, its case: three workers, one or two of them failed, the run ended.
C3_Witness ==
    /\ IsCreate /\ pc = "done" /\ argv.num_workers >= 3
    /\ Cardinality(FailedWorkers) >= 1
    /\ Cardinality(FailedWorkers) <= argv.num_workers - 1
    /\ SucceededWorkers # {}

\* C4: the scale command of a create run carries the observed counts: one
\* master, and as many workers as were created in the run.
C4_ScaleUsesObservedCounts ==
    \A i \in ScaleCalls :
        calls[i].opts.scale = <<1, Cardinality(SucceededWorkers)>>

C5_WitnessResolved ==
    /\ IsCreate /\ MasterCreates # {} /\ argv.consul \notin LiteralRefs

C7_AbsentFailsAtOnce ==
    \A i \in DOMAIN resolutions :
        resolutions[i].state = "absent"
            => /\ resolutions[i].raised = "KeyError"
               /\ resolutions[i].raised # "EnvironmentError"
               /\ resolutions[i].queries = 1
               /\ i = Len(resolutions)
               /\ calls[Len(calls)].cmd = "aws ec2 describe-instances"
               /\ pc = "done" /\ raised = "KeyError" /\ exit_status = 1

\* C7, its case: a name that is not in the inventory was resolved.
C7_Witness ==
    \E i \in DOMAIN resolutions :
        resolutions[i].state = "absent" /\ resolutions[i].name \notin DOMAIN inventory

\* C8: a resolution of a running instance has queried the inventory once
\* and returned that instance's private address when asked for the private
\* one, its public name otherwise.
C8_RunningReturnsAskedField ==
    \A i \in DOMAIN resolutions :
        resolutions[i].state = "running"
            => /\ resolutions[i].raised = "None"
               /\ resolutions[i].queries = 1
               /\ resolutions[i].value =
                     IF resolutions[i].private
                     THEN inventory[resolutions[i].name].PrivateIpAddress
                     ELSE inventory[resolutions[i].name].PublicDnsName

\* C8, its case: one run resolved the Consul box for its private address
\* and the master for its public name.
C8_Witness ==
    /\ Len(resolutions) = 2
    /\ resolutions[1].private /\ resolutions[1].raised = "None"
    /\ ~resolutions[2].private /\ resolutions[2].raised = "None"
    /\ resolutions[1].name # resolutions[2].name

\* C9: a consul destroy of a name docker-machine has no machine for ends
\* without error.
C9_DestroyOfAbsentSucceeds ==
    (argv.cmd = "consul destroy" /\ pc = "done"
        /\ argv.instance_name \notin machines)
        => (raised = "None" /\ exit_status = 0)

\* C10: a test run that ended well issued exactly one docker run, gave it
\* the swarm environment built for the master, and echoed what it printed.
C10_SubmitUsesSwarmEnv ==
    (argv.cmd = "test" /\ pc = "done" /\ raised = "None")
        => /\ Cardinality(SubmitCalls) = 1
           /\ \A i \in SubmitCalls :
                 /\ calls[i].target = <<"m", "a", "s", "t", "e", "r">>
                 /\ ChildEnv(calls[i].env, os_environ) = env_vars
                 /\ output = calls[i].out

\* The fatal steps of a create run, as the world answered them: the
\* reference's instance was absent or not running when asked for, or the
\* command ended with a status other than 0.
DiscoveryFailed ==
    \E i \in DOMAIN resolutions :
        /\ resolutions[i].name = argv.consul /\ resolutions[i].private
        /\ resolutions[i].state # "running"
MasterCreateFailed == \E i \in MasterCreates : calls[i].rc # 0
EnvFailed == \E i \in CallsOf("docker-machine env") : calls[i].rc # 0
UpFailed == \E i \in CallsOf("docker-compose up") : calls[i].rc # 0

\* Every step of the create run was taken and went well, and every worker
\* was created.
FullSuccess ==
    /\ IsCreate /\ pc = "done"
    /\ \A i \in DOMAIN calls : calls[i].rc \in {0, -1}
    /\ \A i \in DOMAIN resolutions : resolutions[i].state = "running"
    /\ ScaleCalls # {}
    /\ Len(children) = argv.num_workers
    /\ \A i \in DOMAIN children : children[i].status = <<0>>

\* C11: a create run in which the discovery resolution, the master's
\* create, docker-machine env or docker-compose up failed has ended with an
\* exit status other than 0; one in which every step and every worker
\* create went well has ended with exit status 0.
C11_ExitStatus ==
    IsCreate =>
        /\ (DiscoveryFailed \/ MasterCreateFailed \/ EnvFailed \/ UpFailed)
              => (pc = "done" /\ exit_status > 0)
        /\ FullSuccess => exit_status = 0

\* C11, its case: a run that resolved its Consul box by name and created
\* all of its workers.
C11_Witness ==
    /\ FullSuccess /\ argv.num_workers >= 2 /\ argv.consul = ConsulBoxName
    /\ exit_status = 0

\* C11, the other case: a run whose docker-compose up failed.
C11_WitnessFailure == IsCreate /\ UpFailed /\ exit_status = 1

\* The machines a create run has created: the master, and the workers
\* whose docker-machine create ended with status 0.
CreatedMachines ==
    { calls[i].target : i \in { j \in MasterCreates : calls[j].rc = 0 } }
        \cup { children[i].name : i \in SucceededWorkers }

\* C12: a create run never issues docker-machine rm, the machines it has
\* created exist, and no step of it takes a machine away.
C12_NoRollback ==
    /\ [](IsCreate => /\ CallsOf("docker-machine rm") = {}
                      /\ CreatedMachines \subseteq machines)
    /\ [][IsCreate => machines \subseteq machines']_vars

\* C12, its case: the run failed at the scale, after the master and a
\* worker were created.
C12_Witness ==
    /\ IsCreate /\ pc = "done" /\ raised # "None"
    /\ \E i \in ScaleCalls : calls[i].rc # 0
    /\ MasterName \in CreatedMachines
    /\ SucceededWorkers # {}

\* The place of a command in the order of create_cluster's statements.
step_of(c) ==
    CASE c.cmd = "aws ec2 describe-instances" /\ c.target # MasterName -> 1
      [] c.cmd = "docker-machine create" /\ c.target = MasterName -> 2
      [] c.cmd = "docker-machine env" -> 3
      [] c.cmd = "docker-compose up" -> 4
      [] c.cmd = "aws ec2 describe-instances" /\ c.target = MasterName -> 5
      [] c.cmd = "docker-machine create" /\ c.target # MasterName -> 6
      [] c.cmd = "docker-compose scale" -> 7
      [] OTHER -> 0

\* Whether a command of step k that ended with status 0 stands before
\* position j of calls.
DoneBefore(k, j) ==
    \E i \in 1..(j - 1) : step_of(calls[i]) = k /\ calls[i].rc = 0

\* C13: the commands of a create run are issued in the order of its steps
\* (workers among themselves in any), and a step is taken only after the
\* one before it has ended well: the master's create after the discovery
\* resolution a non-literal reference needs, docker-machine env after the
\* master's create, docker-compose up after docker-machine env, every
\* worker's create after docker-compose up, the scale after all the
\* workers' creates were issued.
C13_StepOrder ==
    IsCreate =>
        /\ \A i, j \in DOMAIN calls :
              i < j => \/ step_of(calls[i]) < step_of(calls[j])
                       \/ step_of(calls[i]) = 6 /\ step_of(calls[j]) = 6
        /\ \A j \in DOMAIN calls :
              /\ step_of(calls[j]) # 0
              /\ (step_of(calls[j]) = 2 /\ argv.consul \notin LiteralRefs)
                    => (DoneBefore(1, j) /\ resolutions[1].state = "running")
              /\ step_of(calls[j]) = 3 => DoneBefore(2, j)
              /\ step_of(calls[j]) = 4 => DoneBefore(3, j)
              /\ step_of(calls[j]) = 6 => DoneBefore(4, j)
              /\ step_of(calls[j]) = 7 =>
                    Cardinality({ i \in WorkerCreates : i < j }) = argv.num_workers

\* C13, its case: a run that took every step, from the resolution of its
\* Consul box to the scale.
C13_Witness ==
    /\ IsCreate /\ ScaleCalls # {} /\ DiscoveryQueries # {}
    /\ argv.num_workers >= 2
    /\ Len(calls) = argv.num_workers + 6

\* C14: a create run whose discovery resolution, docker-machine env or
\* docker-compose up failed has ended there: the failed command is the
\* last one it issued, and it has issued no worker's create and no scale.
C14_FatalStepAborts ==
    (IsCreate /\ (DiscoveryFailed \/ EnvFailed \/ UpFailed)) =>
        /\ pc = "done" /\ raised # "None"
        /\ step_of(calls[Len(calls)]) =
              (IF DiscoveryFailed THEN 1 ELSE IF EnvFailed THEN 3 ELSE 4)
        /\ \A i \in DOMAIN calls : i < Len(calls) => calls[i].rc = 0
        /\ WorkerCreates = {} /\ ScaleCalls = {}
        /\ children = <<>> /\ processes = <<>>

\* C14, its case: docker-machine env failed in a run asked for workers.
C14_Witness ==
    IsCreate /\ EnvFailed /\ argv.num_workers > 0 /\ pc = "done"

\* C14, the other cases: the discovery resolution failed; docker-compose up
\* failed.
C14_WitnessDiscovery == IsCreate /\ DiscoveryFailed /\ argv.num_workers > 0
C14_WitnessUp == IsCreate /\ UpFailed /\ argv.num_workers > 0 /\ pc = "done"

\* C15: a create run issues at most one scale, and is at the scale (or
\* past it) only when each of its num_workers worker processes has ended,
\* created or failed, in whatever order.
C15_ScaleAfterJoin ==
    IsCreate =>
        /\ Cardinality(ScaleCalls) <= 1
        /\ Joined =>
              /\ Len(children) = argv.num_workers
              /\ Len(exit_order) = argv.num_workers
              /\ \A i \in DOMAIN children : children[i].status \in {<<0>>, <<1>>}

\* C15, its case: the scale was issued after three or more workers ended,
\* the last one requested first.
C15_Witness ==
    /\ IsCreate /\ ScaleCalls # {} /\ argv.num_workers >= 3
    /\ exit_order[1] = argv.num_workers

\* The positions of the workers' creates that stand before position i.
WorkerCreatesBefore(i) == { j \in WorkerCreates : j < i }

\* C16: the workers' creates of a create run are issued one for each index
\* from 0 up, the k-th of them for {prefix}-worker-{k-1}, under pairwise
\* distinct names; all num_workers of them are issued before any is waited
\* for; and the next one can be issued whatever the earlier ones are doing.
C16_FanOut ==
    IsCreate =>
        /\ Cardinality(WorkerCreates) = Len(children)
        /\ Len(children) <= argv.num_workers
        /\ \A i \in WorkerCreates :
              calls[i].target =
                  worker_name_of(argv.cluster_prefix,
                                 Cardinality(WorkerCreatesBefore(i)))
        /\ \A i, j \in WorkerCreates : i # j => calls[i].target # calls[j].target
        /\ (pc \in {"c_wait", "c_scale"} \/ ScaleCalls # {}
               \/ \E k \in DOMAIN processes : processes[k].returncode # <<>>)
              => Cardinality(WorkerCreates) = argv.num_workers
        /\ pc = "c_popen" => ENABLED CreatePopen

\* C16, its case: all of three or more creates are issued and none of the
\* workers has ended.
C16_Witness ==
    /\ IsCreate /\ pc = "c_wait" /\ argv.num_workers >= 3
    /\ Cardinality(WorkerCreates) = argv.num_workers
    /\ exit_order = <<>>

\* The config whose text docker-machine env printed.
ConfigOf(text) == CHOOSE config \in MachineConfigs : config_text(config) = text

\* The names a config exports, and the value it gives a name (that of the
\* last line exporting it).
ExportedNames(config) ==
    { config[i].name : i \in { j \in DOMAIN config : config[j].export } }
ExportedValue(config, name) ==
    LET at == { j \in DOMAIN config : config[j].export /\ config[j].name = name }
    IN  config[CHOOSE j \in at : \A k \in at : k <= j].value

\* The ambient environment overlaid with a config's variables.
Overlay(ambient, config) ==
    [name \in DOMAIN ambient \cup ExportedNames(config) |->
        IF name \in ExportedNames(config) THEN ExportedValue(config, name)
                                          ELSE ambient[name]]

\* C17: once get_swarm_env has read a master's config, the environment it
\* gives its caller is the ambient environment overlaid with the config's
\* variables: each exported name with the config's value, each other
\* ambient name with its ambient value, and no other name.
C17_SwarmEnvIsOverlay ==
    raw_env # <<>> =>
        /\ ~swarm_env.none
        /\ swarm_env.vars = Overlay(os_environ, ConfigOf(raw_env))

\* C18: a create run that is invoked ends, and no resolution in it asks
\* the inventory more than once.
C18_CreateTerminates ==
    /\ IsCreate ~> (pc = "done")
    /\ [](\A i \in DOMAIN resolutions : resolutions[i].queries <= 1)

\* C18, its case: the run has ended after every one of its workers failed.
C18_Witness ==
    /\ IsCreate /\ pc = "done" /\ argv.num_workers >= 2
    /\ Cardinality(FailedWorkers) = argv.num_workers
    /\ Len(resolutions) = 2

\* C19: a create run whose master was not running when its public name was
\* asked for has ended there with the not-running error, after the master
\* was created and its workload started, and has issued no worker's create
\* and no scale.
C19_MasterNotRunningAborts ==
    (IsCreate /\ \E i \in DOMAIN resolutions :
                    /\ resolutions[i].name = MasterName /\ ~resolutions[i].private
                    /\ resolutions[i].state = "pending")
        => /\ pc = "done" /\ raised = "EnvironmentError" /\ exit_status = 1
           /\ step_of(calls[Len(calls)]) = 5
           /\ WorkerCreates = {} /\ ScaleCalls = {}
           /\ children = <<>> /\ processes = <<>>
           /\ MasterName \in machines
           /\ DoneBefore(2, Len(calls)) /\ DoneBefore(4, Len(calls))

\* C19, its case: such a run, asked for workers.
C19_Witness ==
    /\ IsCreate /\ argv.num_workers > 0 /\ pc = "done"
    /\ step_of(calls[Len(calls)]) = 5
    /\ resolutions[Len(resolutions)].state = "pending"

\* The number of colons in a text.
RECURSIVE colons(_)
colons(text) ==
    IF text = <<>> THEN 0
    ELSE (IF Head(text) = ":" THEN 1 ELSE 0) + colons(Tail(text))

\* The part of a consul URL after consul://.
endpoint(url) == SubSeq(url, 10, Len(url))

\* C20: in a create run given a reference accepted as a literal, the
\* discovery URL and the cluster-store URL of every docker-machine create
\* name one host and one port, and are those of the master's create.
C20_OneHostOnePort ==
    (IsCreate /\ looks_like_ip(argv.consul)) =>
        \A i \in CallsOf("docker-machine create") :
            /\ colons(endpoint(calls[i].opts.discovery)) = 1
            /\ colons(endpoint(calls[i].opts.store)) = 1
            /\ \A j \in MasterCreates :
                  /\ calls[i].opts.discovery = calls[j].opts.discovery
                  /\ calls[i].opts.store = calls[j].opts.store

====
